---- MODULE Spec2Model ----
(***************************************************************************)
(* State-machine model of the session-scoped conversation manager of       *)
(* langchain-chatbot: AWSChatbot (chatbot_aws.py), the FastAPI adapter     *)
(* (api.py, registry chatbot_sessions) and the Lambda adapter              *)
(* (deployment/lambda_handler.py, registry chatbot_instances).             *)
(*                                                                         *)
(* The repository is deployed as one process: either the FastAPI server    *)
(* or one Lambda container (adapter, fixed at start).  The HTTP handlers   *)
(* are `async def` bodies without a single await, so the event loop runs   *)
(* each of them to completion before it starts another; a Lambda container *)
(* serves one invocation at a time.  The process therefore has one frame:  *)
(* its running chat request, or idle.  A chat request is cut at its calls  *)
(* to the collaborators (put_item, invoke), where the environment decides  *)
(* the outcome.                                                            *)
(***************************************************************************)
EXTENDS Integers, Sequences, FiniteSets, TLC

\* ---------------------------------------------------------------- bounds
MaxRequests == 2            \* chat requests started

\* ---------------------------------------------------------------- inputs
None == "None"
SessionIds == {"s1"}        \* session ids a client invents
ModelIds == {"m1"}          \* model overrides a client sends
Msg(n) == "q" \o ToString(n) \* the user message of the n-th chat request (non-empty)
Replies == {"r"}            \* texts the inference service answers with
Adapters == {"http", "lambda"}

DefaultModel == "us.amazon.nova-pro-v1:0"
DefaultRegion == "us-east-1"
SystemPrompt == "You are a helpful AI assistant powered by AWS. Be concise and friendly."

VARIABLES
  bots,               \* heap of AWSChatbot objects, by identity (index)
  chatbot_sessions,   \* api.py registry: session id -> bot
  chatbot_instances,  \* lambda_handler.py registry: session id -> bot
  table,              \* the DynamoDB table: a set of items
  clock,              \* the latest timestamp the process has read
  nextUuid,           \* uuid4() values handed out so far
  adapter,            \* which deployment the process is
  frame,              \* the chat request the process is running
  resp,               \* the response on its way to the caller
  log,                \* history: per bot, the chat_response calls made on it
  nreq                \* chat requests started

vars == <<bots, chatbot_sessions, chatbot_instances, table, clock, nextUuid,
          adapter, frame, resp, log, nreq>>

\* ------------------------------------------------------------ messages
SystemMessage(c) == [type |-> "system", content |-> c]
HumanMessage(c) == [type |-> "human", content |-> c]
AIMessage(c) == [type |-> "ai", content |-> c]

uuid4(n) == "u" \o ToString(n)

\* Mutation of AWSChatbot: the conversation opens with a greeting of the
\* assistant after the system turn.
AWSChatbot_greeting(model_id, n) ==
  [ session_id |-> uuid4(n + 1),
    aws_region |-> DefaultRegion,
    model_id   |-> IF model_id # None THEN model_id ELSE DefaultModel,
    messages   |-> << SystemMessage(SystemPrompt), AIMessage("hello") >> ]

\* AWSChatbot.__init__: n is the number of uuids handed out before the call.
AWSChatbot(model_id, n) ==
  [ session_id |-> uuid4(n + 1),
    aws_region |-> DefaultRegion,
    model_id   |-> IF model_id # None THEN model_id ELSE DefaultModel,
    messages   |-> << SystemMessage(SystemPrompt) >> ]


\* ------------------------------------------------------------ DynamoDB
\* Table.put_item under the key schema (SessionId HASH, Timestamp RANGE):
\* an item with the same key is replaced.
put_item(tbl, item) ==
  { i \in tbl : ~(i.SessionId = item.SessionId /\ i.Timestamp = item.Timestamp) }
    \cup {item}

\* The items of a set in ascending Timestamp order (what Table.query returns
\* for one partition: keys are unique inside it).
RECURSIVE SortByTimestamp(_)
SortByTimestamp(items) ==
  IF items = {} THEN << >>
  ELSE LET first == CHOOSE i \in items : \A j \in items : i.Timestamp <= j.Timestamp
       IN  << first >> \o SortByTimestamp(items \ {first})

query(tbl, sid) == SortByTimestamp({ i \in tbl : i.SessionId = sid })

\* Mutation of utcnow: the clock is too coarse to tell two reads apart.
utcnow_coarse(latest) == latest

\* datetime.utcnow(), microsecond resolution, given the latest value read:
\* two reads of the process are separated by a call to put_item, so the
\* second is later.
utcnow(latest) == latest + 1

\* Mutation of Item: every session writes under one partition key.
Item_shared_partition(session_id, ts, mid, role, content) ==
  [ SessionId |-> "shared", Timestamp |-> ts, MessageId |-> mid,
    Role |-> role, Content |-> content ]

\* save_message_to_dynamodb, lines 71-77: the item of one message.
Item(session_id, ts, mid, role, content) ==
  [ SessionId |-> session_id,
    Timestamp |-> ts,
    MessageId |-> mid,
    Role      |-> role,
    Content   |-> content ]

\* Mutation of save_message_to_dynamodb: a failed put_item is raised to the
\* caller instead of being printed and swallowed.
save_message_to_dynamodb_reraise(tbl, bot, role, content, ts, mid, ok) ==
  LET item == Item(bot.session_id, ts, mid, role, content)
  IN  [ item   |-> item,
        table  |-> IF ok THEN put_item(tbl, item) ELSE tbl,
        raised |-> ~ok ]

\* Mutation of save_message_to_dynamodb: the role written is the type of the
\* newest message of the transcript, not the role the caller names.
save_message_to_dynamodb_typed(tbl, bot, role, content, ts, mid, ok) ==
  LET item == Item(bot.session_id, ts, mid, bot.messages[Len(bot.messages)].type, content)
  IN  [ item   |-> item,
        table  |-> IF ok THEN put_item(tbl, item) ELSE tbl,
        raised |-> FALSE ]

\* AWSChatbot.save_message_to_dynamodb: ok is whether put_item succeeds.  Any
\* failure is printed and swallowed; nothing is raised to the caller.  item is
\* the item the call builds and hands to put_item.
save_message_to_dynamodb(tbl, bot, role, content, ts, mid, ok) ==
  LET item == Item(bot.session_id, ts, mid, role, content)
  IN  [ item   |-> item,
        table  |-> IF ok THEN put_item(tbl, item) ELSE tbl,
        raised |-> FALSE ]

\* Mutation of get_conversation_history: the query has no key condition.
get_conversation_history_unfiltered(tbl, session_id, ok) ==
  IF ok THEN SortByTimestamp(tbl) ELSE << >>

\* AWSChatbot.get_conversation_history: ok is whether the query succeeds.
get_conversation_history(tbl, session_id, ok) ==
  IF ok THEN query(tbl, session_id) ELSE << >>

\* ------------------------------------------------------------ AWSChatbot
str(e) == e
InferenceError == "E"
error_msg(e) == "Error getting response: " \o str(e)

\* Mutation of chat_response_append: the new message is put first among the
\* turns of the conversation instead of last.
chat_response_append_newest_first(bot, user_input) ==
  [bot EXCEPT !.messages = << Head(@) >> \o << HumanMessage(user_input) >> \o Tail(@)]

\* Mutation of chat_response_append: the transcript is a window, the system
\* turn and the two newest messages; older turns are dropped.
chat_response_append_windowed(bot, user_input) ==
  LET m == Append(bot.messages, HumanMessage(user_input))
  IN  [bot EXCEPT !.messages =
         IF Len(m) > 3 THEN << m[1] >> \o SubSeq(m, Len(m) - 1, Len(m)) ELSE m]

\* chat_response, line 113: the user message joins the transcript.
chat_response_append(bot, user_input) ==
  [bot EXCEPT !.messages = Append(@, HumanMessage(user_input))]

\* Mutation of invoke_input: the model is handed the newest message only.
invoke_input_newest_only(bot) == << bot.messages[Len(bot.messages)] >>

\* chat_response, line 118: what self.chat.invoke is handed.
invoke_input(bot) == bot.messages

\* Mutation of chat_response_invoke: the error text is recorded as an
\* assistant turn when inference fails.
chat_response_invoke_records_error(bot, answer) ==
  IF answer # None
  THEN [ bot |-> [bot EXCEPT !.messages = Append(@, AIMessage(answer))],
         ok  |-> TRUE,
         ret |-> answer ]
  ELSE [ bot |-> [bot EXCEPT !.messages =
                    Append(@, AIMessage(error_msg(InferenceError)))],
         ok  |-> FALSE,
         ret |-> error_msg(InferenceError) ]

\* Mutation of chat_response_invoke: after a failed inference the call goes
\* on to the second save, with the error text.
chat_response_invoke_saves_error(bot, answer) ==
  IF answer # None
  THEN [ bot |-> [bot EXCEPT !.messages = Append(@, AIMessage(answer))],
         ok  |-> TRUE,
         ret |-> answer ]
  ELSE [ bot |-> bot,
         ok  |-> TRUE,
         ret |-> error_msg(InferenceError) ]

\* chat_response, lines 117-129, up to the second save: answer is the text
\* the model returns, or None when self.chat.invoke raises.
chat_response_invoke(bot, answer) ==
  IF answer # None
  THEN [ bot |-> [bot EXCEPT !.messages = Append(@, AIMessage(answer))],
         ok  |-> TRUE,
         ret |-> answer ]
  ELSE [ bot |-> bot,
         ok  |-> FALSE,
         ret |-> error_msg(InferenceError) ]

Count(seq, type) == Cardinality({ i \in DOMAIN seq : seq[i].type = type })

\* Mutation of get_session_summary: every message that is not the user's is
\* counted as the assistant's (the system message too).
get_session_summary_not_human(bot) ==
  [ session_id    |-> bot.session_id,
    region        |-> bot.aws_region,
    model         |-> bot.model_id,
    user_messages |-> Count(bot.messages, "human"),
    ai_messages   |-> Len(bot.messages) - Count(bot.messages, "human") ]

get_session_summary(bot) ==
  [ session_id    |-> bot.session_id,
    region        |-> bot.aws_region,
    model         |-> bot.model_id,
    user_messages |-> Count(bot.messages, "human"),
    ai_messages   |-> Count(bot.messages, "ai") ]

\* ------------------------------------------------------------ registries
Registered(reg, sid) == sid \in DOMAIN reg
Put(reg, sid, b) == [ k \in DOMAIN reg \cup {sid} |-> IF k = sid THEN b ELSE reg[k] ]
Del(reg, sid) == [ k \in DOMAIN reg \ {sid} |-> reg[k] ]

\* Mutation of http_getOrCreate: a registered session is reused only when the
\* request names no model or the session's own; otherwise it is replaced.
http_getOrCreate_model_keyed(reg, heap, n, req_sid, req_model) ==
  LET fresh == (req_sid = None)
      session_id == IF fresh THEN uuid4(n + 1) ELSE req_sid
      n1 == IF fresh THEN n + 1 ELSE n
  IN  IF /\ Registered(reg, session_id)
         /\ req_model \in {None, heap[reg[session_id]].model_id}
      THEN [ reg |-> reg, heap |-> heap, n |-> n1, bot |-> reg[session_id],
             session_id |-> session_id, created |-> FALSE ]
      ELSE LET chatbot == [AWSChatbot(req_model, n1) EXCEPT !.session_id = session_id]
               b == Len(heap) + 1
           IN  [ reg |-> Put(reg, session_id, b), heap |-> Append(heap, chatbot),
                 n |-> n1 + 1, bot |-> b, session_id |-> session_id,
                 created |-> TRUE ]

\* Mutation of http_getOrCreate: the registry holds one session, a new one
\* evicts the others.
http_getOrCreate_evicting(reg, heap, n, req_sid, req_model) ==
  LET fresh == (req_sid = None)
      session_id == IF fresh THEN uuid4(n + 1) ELSE req_sid
      n1 == IF fresh THEN n + 1 ELSE n
  IN  IF Registered(reg, session_id)
      THEN [ reg |-> reg, heap |-> heap, n |-> n1, bot |-> reg[session_id],
             session_id |-> session_id, created |-> FALSE ]
      ELSE LET chatbot == [AWSChatbot(req_model, n1) EXCEPT !.session_id = session_id]
               b == Len(heap) + 1
           IN  [ reg |-> Put([k \in {} |-> 0], session_id, b),
                 heap |-> Append(heap, chatbot),
                 n |-> n1 + 1, bot |-> b, session_id |-> session_id,
                 created |-> TRUE ]

\* api.py chat, lines 128-140.  n: uuids handed out before the call.
http_getOrCreate(reg, heap, n, req_sid, req_model) ==
  LET fresh == (req_sid = None)
      session_id == IF fresh THEN uuid4(n + 1) ELSE req_sid
      n1 == IF fresh THEN n + 1 ELSE n
  IN  IF Registered(reg, session_id)
      THEN [ reg |-> reg, heap |-> heap, n |-> n1, bot |-> reg[session_id],
             session_id |-> session_id, created |-> FALSE ]
      ELSE LET chatbot == [AWSChatbot(req_model, n1) EXCEPT !.session_id = session_id]
               b == Len(heap) + 1
           IN  [ reg |-> Put(reg, session_id, b), heap |-> Append(heap, chatbot),
                 n |-> n1 + 1, bot |-> b, session_id |-> session_id,
                 created |-> TRUE ]

\* Mutation of lambda_getOrCreate: the new chatbot is registered under the
\* id of the request but keeps the uuid its constructor gave it.
lambda_getOrCreate_keeps_uuid(reg, heap, n, req_sid, req_model) ==
  IF req_sid # None /\ Registered(reg, req_sid)
  THEN [ reg |-> reg, heap |-> heap, n |-> n, bot |-> reg[req_sid],
         session_id |-> req_sid, created |-> FALSE ]
  ELSE LET chatbot == AWSChatbot(req_model, n)
           b == Len(heap) + 1
       IN  [ reg |-> IF req_sid # None THEN Put(reg, req_sid, b) ELSE reg,
             heap |-> Append(heap, chatbot), n |-> n + 1, bot |-> b,
             session_id |-> req_sid, created |-> TRUE ]

\* lambda_handler, lines 55-62.
lambda_getOrCreate(reg, heap, n, req_sid, req_model) ==
  IF req_sid # None /\ Registered(reg, req_sid)
  THEN [ reg |-> reg, heap |-> heap, n |-> n, bot |-> reg[req_sid],
         session_id |-> req_sid, created |-> FALSE ]
  ELSE LET made == AWSChatbot(req_model, n)
           chatbot == IF req_sid # None THEN [made EXCEPT !.session_id = req_sid]
                      ELSE made
           b == Len(heap) + 1
       IN  [ reg |-> IF req_sid # None THEN Put(reg, req_sid, b) ELSE reg,
             heap |-> Append(heap, chatbot), n |-> n + 1, bot |-> b,
             session_id |-> req_sid, created |-> TRUE ]

\* ------------------------------------------------------------ state
Idle == [ pc |-> "idle", bot |-> 0, session_id |-> None, req_sid |-> None,
          req_model |-> None, message |-> None, ret |-> None, created |-> FALSE ]
NoResp == [ op |-> "none" ]

\* Session ids a client can send: invented ones and ones a response carried.
ClientIds == SessionIds \cup { bots[b].session_id : b \in DOMAIN bots }

Init ==
  /\ bots = << >>
  /\ chatbot_sessions = [ k \in {} |-> 0 ]
  /\ chatbot_instances = [ k \in {} |-> 0 ]
  /\ table = {}
  /\ clock = 0
  /\ nextUuid = 0
  /\ adapter \in Adapters
  /\ frame = Idle
  /\ resp = NoResp
  /\ log = << >>
  /\ nreq = 0

\* Mutation of Free: a handler may start while a chat request is suspended
\* at one of its network calls (as it would be if chat_response awaited them).
Free_while_suspended ==
  /\ frame.pc \in {"idle", "save_user", "invoke", "save_assistant"}
  /\ resp = NoResp

\* Mutation of Free: a handler may start while a chat request waits for the
\* model (as it would if chat_response awaited the inference call).
Free_during_invoke ==
  /\ frame.pc \in {"idle", "invoke"}
  /\ resp = NoResp

\* The event loop (or the Lambda container) is free to start a handler: no
\* chat request is running and the last response has gone out.
Free == frame.pc = "idle" /\ resp = NoResp

\* ------------------------------------------------------------ chat requests
\* POST /chat, lines 126-140: the handler starts and gets or creates the bot.
ChatStart(req_sid, req_model, message) ==
  /\ adapter = "http"
  /\ Free
  /\ nreq < MaxRequests
  /\ LET g == http_getOrCreate(chatbot_sessions, bots, nextUuid, req_sid, req_model)
     IN  /\ chatbot_sessions' = g.reg
         /\ bots' = g.heap
         /\ nextUuid' = g.n
         /\ log' = IF g.created THEN Append(log, << >>) ELSE log
         /\ frame' = [ pc |-> "chat_response", bot |-> g.bot,
                       session_id |-> g.session_id, req_sid |-> req_sid,
                       req_model |-> req_model, message |-> message,
                       ret |-> None, created |-> g.created ]
  /\ nreq' = nreq + 1
  /\ UNCHANGED <<chatbot_instances, table, clock, adapter, resp>>

\* lambda_handler, lines 27-62, for a request that carries a message.
LambdaStart(req_sid, req_model, message) ==
  /\ adapter = "lambda"
  /\ Free
  /\ nreq < MaxRequests
  /\ LET g == lambda_getOrCreate(chatbot_instances, bots, nextUuid, req_sid, req_model)
     IN  /\ chatbot_instances' = g.reg
         /\ bots' = g.heap
         /\ nextUuid' = g.n
         /\ log' = IF g.created THEN Append(log, << >>) ELSE log
         /\ frame' = [ pc |-> "chat_response", bot |-> g.bot,
                       session_id |-> g.session_id, req_sid |-> req_sid,
                       req_model |-> req_model, message |-> message,
                       ret |-> None, created |-> g.created ]
  /\ nreq' = nreq + 1
  /\ UNCHANGED <<chatbot_sessions, table, clock, adapter, resp>>

\* History: what a running call did to its collaborators, in order.  A put
\* event carries the role and content of the item handed to put_item and
\* whether the write succeeded; an invoke event carries the messages handed
\* to self.chat.invoke.
PutEvent(item, ok) ==
  [ ev |-> "put", role |-> item.Role, content |-> item.Content, ok |-> ok,
    prompt |-> << >> ]
InvokeEvent(prompt) ==
  [ ev |-> "invoke", role |-> None, content |-> None, ok |-> TRUE, prompt |-> prompt ]
Traced(b, event) ==
  [log EXCEPT ![b][Len(log[b])].trace = Append(@, event)]

\* chat_response line 113.
AppendUser ==
  /\ frame.pc = "chat_response"
  /\ LET b == frame.bot
     IN  /\ bots' = [bots EXCEPT ![b] = chat_response_append(@, frame.message)]
         /\ log' = [log EXCEPT ![b] =
                      Append(@, [ input |-> frame.message, outcome |-> "pending",
                                  answer |-> None, trace |-> << >> ])]
  /\ frame' = [frame EXCEPT !.pc = "save_user"]
  /\ UNCHANGED <<chatbot_sessions, chatbot_instances, table, clock, nextUuid,
                 adapter, resp, nreq>>

\* chat_response line 114.  An exception leaving save_message_to_dynamodb here
\* would leave chat_response too (the call is outside its try block).
SaveUser(ok) ==
  /\ frame.pc = "save_user"
  /\ LET ts == utcnow(clock)
         r == save_message_to_dynamodb(table, bots[frame.bot], "user",
                                       frame.message, ts, uuid4(nextUuid + 1), ok)
     IN  /\ table' = r.table
         /\ clock' = ts
         /\ frame' = [frame EXCEPT !.pc = IF r.raised THEN "raised" ELSE "invoke"]
         /\ log' = Traced(frame.bot, PutEvent(r.item, ok))
  /\ nextUuid' = nextUuid + 1
  /\ UNCHANGED <<bots, chatbot_sessions, chatbot_instances, adapter, resp, nreq>>

\* chat_response lines 117-122 and 126-129.
Invoke(answer) ==
  /\ frame.pc = "invoke"
  /\ LET b == frame.bot
         r == chat_response_invoke(bots[b], answer)
     IN  /\ bots' = [bots EXCEPT ![b] = r.bot]
         /\ log' = [log EXCEPT ![b][Len(log[b])] =
                      [ @ EXCEPT !.outcome = IF answer # None THEN "ok" ELSE "fail",
                                 !.answer = answer,
                                 !.trace = Append(@, InvokeEvent(invoke_input(bots[b]))) ]]
         /\ frame' = [frame EXCEPT !.pc = IF r.ok THEN "save_assistant" ELSE "return",
                                   !.ret = r.ret]
  /\ UNCHANGED <<chatbot_sessions, chatbot_instances, table, clock, nextUuid,
                 adapter, resp, nreq>>

\* chat_response lines 123-125.  An exception leaving save_message_to_dynamodb
\* here would be caught by line 126 and turned into the error string.
SaveAssistant(ok) ==
  /\ frame.pc = "save_assistant"
  /\ LET ts == utcnow(clock)
         r == save_message_to_dynamodb(table, bots[frame.bot], "assistant",
                                       frame.ret, ts, uuid4(nextUuid + 1), ok)
     IN  /\ table' = r.table
         /\ clock' = ts
         /\ frame' = [frame EXCEPT !.pc = "return",
                                   !.ret = IF r.raised THEN error_msg(InferenceError)
                                           ELSE frame.ret]
         /\ log' = Traced(frame.bot, PutEvent(r.item, ok))
  /\ nextUuid' = nextUuid + 1
  /\ UNCHANGED <<bots, chatbot_sessions, chatbot_instances, adapter, resp, nreq>>

\* api.py chat, lines 145-157: what the handler answers.  raised: the handler
\* ends by raising HTTPException instead of returning a value.
ChatResponse(f, bot) ==
  IF f.pc = "raised"
  THEN [ op |-> "chat", status |-> 500, raised |-> TRUE,
         detail |-> "Error processing chat request" ]
  ELSE [ op |-> "chat", status |-> 200, raised |-> FALSE,
         response |-> f.ret, session_id |-> f.session_id,
         model |-> bot.model_id, region |-> bot.aws_region ]

\* lambda_handler, lines 67-93.
LambdaResponse(f, bot) ==
  IF f.pc = "raised"
  THEN [ op |-> "chat", status |-> 500, raised |-> FALSE, error |-> "error" ]
  ELSE [ op |-> "chat", status |-> 200, raised |-> FALSE,
         response |-> f.ret, session_id |-> bot.session_id,
         model |-> bot.model_id, region |-> bot.aws_region ]

ChatReturn ==
  /\ frame.pc \in {"return", "raised"}
  /\ resp' = IF adapter = "http" THEN ChatResponse(frame, bots[frame.bot])
             ELSE LambdaResponse(frame, bots[frame.bot])
  /\ frame' = Idle
  /\ UNCHANGED <<bots, chatbot_sessions, chatbot_instances, table, clock, nextUuid,
                 adapter, log, nreq>>

\* ------------------------------------------------------------ other handlers
\* Mutation of delete_session: the session's items are deleted from the
\* table as well.
delete_session_purge(reg, tbl, session_id) ==
  IF Registered(reg, session_id)
  THEN [ reg |-> Del(reg, session_id),
         table |-> { i \in tbl : i.SessionId # session_id },
         resp |-> [ op |-> "delete", status |-> 200, raised |-> FALSE,
                    session_id |-> session_id ] ]
  ELSE [ reg |-> reg, table |-> tbl,
         resp |-> [ op |-> "delete", status |-> 404, raised |-> TRUE,
                    session_id |-> session_id ] ]

\* Mutation of delete_session: deleting an id that is not registered is
\* answered as a success.
delete_session_idempotent(reg, tbl, session_id) ==
  [ reg |-> IF Registered(reg, session_id) THEN Del(reg, session_id) ELSE reg,
    table |-> tbl,
    resp |-> [ op |-> "delete", status |-> 200, raised |-> FALSE,
               session_id |-> session_id ] ]

\* DELETE /session/{session_id}: drops the registry entry and nothing else
\* ("doesn't delete from DynamoDB"); raises HTTPException(404) for an id
\* that is not registered.
delete_session(reg, tbl, session_id) ==
  IF Registered(reg, session_id)
  THEN [ reg |-> Del(reg, session_id), table |-> tbl,
         resp |-> [ op |-> "delete", status |-> 200, raised |-> FALSE,
                    session_id |-> session_id ] ]
  ELSE [ reg |-> reg, table |-> tbl,
         resp |-> [ op |-> "delete", status |-> 404, raised |-> TRUE,
                    session_id |-> session_id ] ]

DeleteSession(session_id) ==
  /\ adapter = "http"
  /\ Free
  /\ LET r == delete_session(chatbot_sessions, table, session_id)
     IN  /\ chatbot_sessions' = r.reg
         /\ table' = r.table
         /\ resp' = r.resp
  /\ UNCHANGED <<bots, chatbot_instances, clock, nextUuid, adapter, frame, log, nreq>>

\* GET /session/{session_id}
\* Mutation of get_session_info: an unknown id is answered with the summary
\* of a chatbot made for the occasion.
get_session_info_lenient(reg, heap, session_id) ==
  IF ~Registered(reg, session_id)
  THEN [ op |-> "session", status |-> 200, raised |-> FALSE,
         summary |-> get_session_summary(AWSChatbot(None, 0)) ]
  ELSE [ op |-> "session", status |-> 200, raised |-> FALSE,
         summary |-> get_session_summary(heap[reg[session_id]]) ]

get_session_info(reg, heap, session_id) ==
  IF ~Registered(reg, session_id)
  THEN [ op |-> "session", status |-> 404, raised |-> TRUE, session_id |-> session_id ]
  ELSE [ op |-> "session", status |-> 200, raised |-> FALSE,
         summary |-> get_session_summary(heap[reg[session_id]]) ]

GetSessionInfo(session_id) ==
  /\ adapter = "http"
  /\ Free
  /\ resp' = get_session_info(chatbot_sessions, bots, session_id)
  /\ UNCHANGED <<bots, chatbot_sessions, chatbot_instances, table, clock, nextUuid,
                 adapter, frame, log, nreq>>

\* api.py lines 173-178: the response model of one stored item.
HistoryItem(item) ==
  [ timestamp  |-> item.Timestamp,
    role       |-> item.Role,
    content    |-> item.Content,
    message_id |-> item.MessageId ]

\* Mutation of get_history: the chatbot made for the query is registered
\* under the id asked for (bot 0: it is no session of the heap).
get_history_registers(reg, tbl, session_id, ok) ==
  LET history == get_conversation_history(tbl, session_id, ok)
  IN  [ reg  |-> Put(reg, session_id, 0),
        resp |-> [ op |-> "history", status |-> 200, raised |-> FALSE,
                   session_id |-> session_id,
                   items |-> [ i \in DOMAIN history |-> HistoryItem(history[i]) ] ] ]

\* GET /history/{session_id}: a temporary AWSChatbot (registered nowhere,
\* dropped with the handler's frame) queries the table; the registry is
\* not touched.
get_history(reg, tbl, session_id, ok) ==
  LET history == get_conversation_history(tbl, session_id, ok)
  IN  [ reg  |-> reg,
        resp |-> [ op |-> "history", status |-> 200, raised |-> FALSE,
                   session_id |-> session_id,
                   items |-> [ i \in DOMAIN history |-> HistoryItem(history[i]) ] ] ]

GetHistory(session_id, ok) ==
  /\ adapter = "http"
  /\ Free
  /\ LET r == get_history(chatbot_sessions, table, session_id, ok)
     IN  /\ chatbot_sessions' = r.reg
         /\ resp' = r.resp
  /\ UNCHANGED <<bots, chatbot_instances, table, clock, nextUuid, adapter, frame,
                 log, nreq>>

\* GET /sessions
list_active_sessions(reg) ==
  [ op |-> "sessions", status |-> 200, raised |-> FALSE, ids |-> DOMAIN reg ]

ListActiveSessions ==
  /\ adapter = "http"
  /\ Free
  /\ resp' = list_active_sessions(chatbot_sessions)
  /\ UNCHANGED <<bots, chatbot_sessions, chatbot_instances, table, clock, nextUuid,
                 adapter, frame, log, nreq>>

\* The response reaches the caller; the handler is over.
Deliver ==
  /\ resp # NoResp
  /\ resp' = NoResp
  /\ UNCHANGED <<bots, chatbot_sessions, chatbot_instances, table, clock, nextUuid,
                 adapter, frame, log, nreq>>

Next ==
  \/ \E sid \in ClientIds \cup {None}, m \in ModelIds \cup {None} :
       ChatStart(sid, m, Msg(nreq + 1))
  \/ \E sid \in ClientIds \cup {None}, m \in ModelIds \cup {None} :
       LambdaStart(sid, m, Msg(nreq + 1))
  \/ AppendUser
  \/ \E ok \in BOOLEAN : SaveUser(ok)
  \/ \E answer \in Replies \cup {None} : Invoke(answer)
  \/ \E ok \in BOOLEAN : SaveAssistant(ok)
  \/ ChatReturn
  \/ \E sid \in ClientIds : DeleteSession(sid)
  \/ \E sid \in ClientIds : GetSessionInfo(sid)
  \/ \E sid \in ClientIds, ok \in BOOLEAN : GetHistory(sid, ok)
  \/ ListActiveSessions
  \/ Deliver

Spec == Init /\ [][Next]_vars


\* ------------------------------------------------------------ properties
Last(seq) == seq[Len(seq)]
Registry == IF adapter = "http" THEN chatbot_sessions ELSE chatbot_instances

\* The turns a sequence of chat_response calls should have left behind: per
\* call its user turn, then its assistant turn when inference succeeded.
RECURSIVE Replay(_)
Replay(calls) ==
  IF calls = << >> THEN << >>
  ELSE LET c == Last(calls)
       IN  Replay(SubSeq(calls, 1, Len(calls) - 1))
             \o << HumanMessage(c.input) >>
             \o (IF c.outcome = "ok" THEN << AIMessage(c.answer) >> ELSE << >>)

Outcomes(b, o) == { i \in DOMAIN log[b] : log[b][i].outcome = o }

\* C1: the transcript of every session is the system turn followed by the
\* turns of its chat_response calls in call order: a call whose inference
\* succeeded contributes its user turn and then its assistant turn, a call
\* whose inference failed (or has not answered yet) its user turn only.
C1_TranscriptInCallOrder ==
  \A b \in DOMAIN bots :
    bots[b].messages = << SystemMessage(SystemPrompt) >> \o Replay(log[b])

C1_Witness ==
  /\ Free
  /\ \E b \in DOMAIN bots :
       /\ Len(log[b]) = 2
       /\ log[b][1].outcome = "fail"
       /\ log[b][2].outcome = "ok"
       /\ Len(bots[b].messages) = 4

\* C2: the summary of every session counts as user messages the
\* chat_response calls issued on it and as ai messages the calls whose
\* inference succeeded; GET /session/{id} reports these counts.
C2_SummaryCounts ==
  /\ \A b \in DOMAIN bots :
       /\ get_session_summary(bots[b]).user_messages = Len(log[b])
       /\ get_session_summary(bots[b]).ai_messages = Cardinality(Outcomes(b, "ok"))
  /\ (resp.op = "session" /\ resp.status = 200) =>
       \E b \in DOMAIN bots :
         /\ chatbot_sessions[resp.summary.session_id] = b
         /\ resp.summary.user_messages = Len(log[b])
         /\ resp.summary.ai_messages = Cardinality(Outcomes(b, "ok"))

C2_Witness ==
  /\ resp.op = "session"
  /\ resp.status = 200
  /\ resp.summary.user_messages = 2
  /\ resp.summary.ai_messages = 1


\* The step of a running chat request in which self.chat.invoke raises.
InvokeFails == frame.pc = "invoke" /\ Last(log'[frame.bot]).outcome = "fail"

\* C3: when inference fails, chat_response hands back the error text instead
\* of raising; the step adds no turn to the transcript (its last turn stays
\* the user turn of this call), writes nothing to the table, leaves both
\* registries as they are and goes straight to the return; and the handler
\* then answers with that text without raising.
C3_InferenceFailureContained ==
  [][ /\ InvokeFails =>
           /\ frame'.pc = "return"
           /\ frame'.ret = error_msg(InferenceError)
           /\ bots' = bots
           /\ Last(bots'[frame.bot].messages) = HumanMessage(frame.message)
           /\ table' = table
           /\ chatbot_sessions' = chatbot_sessions
           /\ chatbot_instances' = chatbot_instances
      /\ (frame.pc = "return" /\ frame.ret = error_msg(InferenceError)) =>
           /\ ~resp'.raised
           /\ resp'.response = frame.ret
           /\ table' = table
           /\ bots' = bots
    ]_vars

\* A session whose last call failed is handed the next request.
C3_Witness ==
  /\ frame.pc = "chat_response"
  /\ ~frame.created
  /\ Last(log[frame.bot]).outcome = "fail"
  /\ Last(bots[frame.bot].messages).type = "human"
  /\ Registry[frame.session_id] = frame.bot

\* C4: whatever put_item does, saving the user turn leads on to the inference
\* call and saving the assistant turn leads on to the return, with the
\* transcript and the value to return untouched; and the value returned is
\* the answer of the model (or the error text), as the call log has it.
C4_StorageFailureIgnored ==
  [][ /\ frame.pc = "save_user" =>
           /\ frame'.pc = "invoke"
           /\ bots' = bots
           /\ frame'.ret = frame.ret
      /\ frame.pc = "save_assistant" =>
           /\ frame'.pc = "return"
           /\ bots' = bots
           /\ frame'.ret = frame.ret
      /\ frame'.pc = "return" =>
           frame'.ret = IF Last(log'[frame.bot]).outcome = "ok"
                        THEN Last(log'[frame.bot]).answer
                        ELSE error_msg(InferenceError)
    ]_vars

\* Both writes of a call failed and the caller still got the model's answer.
C4_Witness ==
  /\ resp.op = "chat"
  /\ resp.status = 200
  /\ resp.response \in Replies
  /\ table = {}
  /\ \E b \in DOMAIN bots : Len(bots[b].messages) = 3

\* The step in which a handler gets or creates the bot for its request.
GetOrCreate == frame.pc = "idle" /\ frame'.pc = "chat_response"

\* C5: a request that names a registered session id is served by the bot
\* registered under it, whatever model it names: no bot is made, the registry
\* stays as it is; and no step changes the model of a bot.  Both adapters.
C5_RegisteredIdSameInstance ==
  [][ /\ (GetOrCreate /\ Registered(Registry, frame'.req_sid)) =>
           /\ frame'.bot = Registry[frame'.req_sid]
           /\ ~frame'.created
           /\ bots' = bots
           /\ chatbot_sessions' = chatbot_sessions
           /\ chatbot_instances' = chatbot_instances
      /\ \A b \in DOMAIN bots : bots'[b].model_id = bots[b].model_id
    ]_vars

C5_Witness ==
  /\ frame.pc = "chat_response"
  /\ ~frame.created
  /\ frame.req_model # None
  /\ bots[frame.bot].model_id # frame.req_model

\* The bots a request can reach: the registered ones and the one the running
\* chat request holds.
InUse ==
  { chatbot_sessions[k] : k \in DOMAIN chatbot_sessions }
    \cup (IF frame.pc = "idle" THEN {} ELSE {frame.bot})

\* C6: in the HTTP server, the bot a running chat request holds is the bot
\* registered under its session id (it is never a removed one), and no two
\* reachable bots carry the same session id.
C6_RegistryAtomic ==
  adapter = "http" =>
    /\ frame.pc # "idle" =>
         /\ Registered(chatbot_sessions, frame.session_id)
         /\ chatbot_sessions[frame.session_id] = frame.bot
    /\ \A b1 \in InUse, b2 \in InUse :
         bots[b1].session_id = bots[b2].session_id => b1 = b2

\* A chat request is under way on a session whose id was removed and created
\* anew before.
C6_Witness ==
  /\ adapter = "http"
  /\ frame.pc = "invoke"
  /\ \E b \in DOMAIN bots :
       b # frame.bot /\ bots[b].session_id = frame.session_id

\* C7: delete_session leaves the table as it is, so the history of the id
\* reads the same after it as before; and a bot that has just been created
\* holds the system turn only (summary counts zero), whatever the table
\* holds for its id.
C7_RemoveKeepsHistory ==
  [][ /\ (resp = NoResp /\ resp'.op = "delete") =>
           /\ table' = table
           /\ get_conversation_history(table', resp'.session_id, TRUE)
                = get_conversation_history(table, resp'.session_id, TRUE)
      /\ (GetOrCreate /\ frame'.created) =>
           /\ bots'[frame'.bot].messages = << SystemMessage(SystemPrompt) >>
           /\ get_session_summary(bots'[frame'.bot]).user_messages = 0
           /\ get_session_summary(bots'[frame'.bot]).ai_messages = 0
    ]_vars

\* A session is created anew under an id whose earlier turns are in the table.
C7_Witness ==
  /\ adapter = "http"
  /\ frame.pc = "chat_response"
  /\ frame.created
  /\ Len(get_conversation_history(table, frame.session_id, TRUE)) = 2
  /\ get_session_summary(bots[frame.bot]).user_messages = 0

\* The step in which DELETE /session/{id} is served for an id that is not
\* registered.
DeleteUnregistered ==
  /\ resp = NoResp
  /\ resp'.op = "delete"
  /\ ~Registered(chatbot_sessions, resp'.session_id)

\* C8 as claimed: deleting an id that is not registered does not raise and
\* leaves the registry unchanged.
C8_Original ==
  [][ DeleteUnregistered =>
        /\ ~resp'.raised
        /\ chatbot_sessions' = chatbot_sessions ]_vars

\* C8 as amended: deleting an id that is not registered reports the absence
\* by raising HTTPException with status 404, and leaves the registry, the
\* bots and the table unchanged.
C8_RemoveUnregistered ==
  [][ DeleteUnregistered =>
        /\ resp'.raised
        /\ resp'.status = 404
        /\ chatbot_sessions' = chatbot_sessions
        /\ bots' = bots
        /\ table' = table ]_vars

C8_Witness ==
  /\ resp.op = "delete"
  /\ resp.status = 404
  /\ ~Registered(chatbot_sessions, resp.session_id)
  /\ DOMAIN chatbot_sessions # {}

\* C9 as claimed: a chat request whose inference failed is not answered with
\* a success response that carries the error text.
C9_Original ==
  (resp.op = "chat" /\ resp.status = 200) => resp.response # error_msg(InferenceError)

\* C10 as claimed: a bot that has just been created is registered, under the
\* id it persists its turns with, in the registry of its adapter.
C10_Original ==
  (frame.pc = "chat_response" /\ frame.created) =>
    /\ Registered(Registry, bots[frame.bot].session_id)
    /\ Registry[bots[frame.bot].session_id] = frame.bot


\* ------------------------------------------------------------ history
\* The events of all calls made on bot b, in order, and the puts among them.
RECURSIVE Flatten(_)
Flatten(calls) ==
  IF calls = << >> THEN << >>
  ELSE Flatten(SubSeq(calls, 1, Len(calls) - 1)) \o Last(calls).trace

IsPut(e) == e.ev = "put"
IsInvoke(e) == e.ev = "invoke"
PutsOf(b) == SelectSeq(Flatten(log[b]), IsPut)

\* The role a message is saved under (chat_response lines 114 and 123).
RoleOf(type) == IF type = "human" THEN "user" ELSE IF type = "ai" THEN "assistant" ELSE type

\* The transcript of bot b without its leading system turn, as role and content.
TurnsOf(b) ==
  [ i \in 1..(Len(bots[b].messages) - 1) |->
      [ role    |-> RoleOf(bots[b].messages[i + 1].type),
        content |-> bots[b].messages[i + 1].content ] ]

\* What GET /history/{sid} answers when the query succeeds, as role and content.
Stored(sid) ==
  LET items == get_history(chatbot_sessions, table, sid, TRUE).resp.items
  IN  [ i \in DOMAIN items |-> [ role |-> items[i].role, content |-> items[i].content ] ]

\* Bot b has answered at least one call, every write it attempted succeeded,
\* and none of its turns awaits its write.
AllWritten(b) ==
  /\ PutsOf(b) # << >>
  /\ \A i \in DOMAIN PutsOf(b) : PutsOf(b)[i].ok
  /\ Len(PutsOf(b)) = Len(bots[b].messages) - 1

\* No other bot has written a record under the session id of bot b.
SoleWriter(b) ==
  \A c \in DOMAIN bots :
    (c # b /\ bots[c].session_id = bots[b].session_id) =>
      \A i \in DOMAIN PutsOf(c) : ~PutsOf(c)[i].ok

Live == { Registry[k] : k \in DOMAIN Registry }

\* C11 as claimed: for a live session whose writes all succeeded, the history
\* of its id is its transcript without the system turn, record for turn.
C11_Original ==
  \A b \in Live : AllWritten(b) => Stored(bots[b].session_id) = TurnsOf(b)

\* C11 as amended: for a session whose writes all succeeded and under whose id
\* no other session has written, the history of its id is its transcript
\* without the system turn, record for turn and in the same order.
C11_HistoryMirrorsTranscript ==
  \A b \in Live :
    (AllWritten(b) /\ SoleWriter(b)) => Stored(bots[b].session_id) = TurnsOf(b)

C11_Witness ==
  /\ Free
  /\ \E b \in Live :
       /\ AllWritten(b)
       /\ SoleWriter(b)
       /\ Len(bots[b].messages) = 5
       /\ Len(Stored(bots[b].session_id)) = 4


\* The store's records under sid, in the shape GET /history answers.
RecordsOf(sid) == { HistoryItem(i) : i \in { j \in table : j.SessionId = sid } }

GetStep == resp = NoResp /\ resp'.op = "session"

\* C13: get on an unregistered id answers NotFound (404) and get on a
\* registered id answers the summary of the session registered under it;
\* either way the registry, the sessions and the store are as before.
C13_GetFoundOrNotFound ==
  [][ GetStep =>
        /\ UNCHANGED <<chatbot_sessions, chatbot_instances, bots, table>>
        /\ resp'.raised =>
             /\ resp'.status = 404
             /\ ~Registered(chatbot_sessions, resp'.session_id)
        /\ ~resp'.raised =>
             /\ resp'.status = 200
             /\ Registered(chatbot_sessions, resp'.summary.session_id)
             /\ resp'.summary =
                  get_session_summary(bots[chatbot_sessions[resp'.summary.session_id]])
    ]_vars

\* NotFound for an unregistered id while another session is registered.
C13_Witness ==
  /\ resp.op = "session"
  /\ resp.raised
  /\ resp.status = 404
  /\ ~Registered(chatbot_sessions, resp.session_id)
  /\ DOMAIN chatbot_sessions # {}


\* A step in which one of the read handlers answers.
ReadStep == resp = NoResp /\ resp'.op \in {"history", "session", "sessions"}

\* C14: history, summary, list and get change nothing: the registry, every
\* session's transcript and the store are the same after the call; list
\* answers the registered ids, so two lists with no getOrCreate or remove
\* between them answer the same set; history registers no session.
C14_ReadsChangeNothing ==
  [][ ReadStep =>
        /\ UNCHANGED <<chatbot_sessions, chatbot_instances, bots, table>>
        /\ resp'.op = "sessions" => resp'.ids = DOMAIN chatbot_sessions'
        /\ resp'.op = "session" /\ ~resp'.raised =>
             resp'.summary =
               get_session_summary(bots'[chatbot_sessions'[resp'.summary.session_id]])
    ]_vars

\* history answered the records of an id that has no live session, and the
\* id is still unregistered.
C14_Witness ==
  /\ resp.op = "history"
  /\ resp.items # << >>
  /\ ~Registered(chatbot_sessions, resp.session_id)
  /\ DOMAIN chatbot_sessions # {}


\* A step in which DELETE /session/{id} removes the registered id.
Remove(id) ==
  /\ resp = NoResp
  /\ resp'.op = "delete"
  /\ ~resp'.raised
  /\ resp'.session_id = id

\* C15: an id enters the registry only in the getOrCreate of a request that
\* runs under that id, and leaves it only in a remove of that id; in every
\* other step a registered id stays registered, with the same session.
C15_RegisteredUntilRemoved ==
  [][ \A id \in DOMAIN Registry \cup DOMAIN Registry' :
        /\ (~Registered(Registry, id) /\ Registered(Registry', id)) =>
             (GetOrCreate /\ frame'.session_id = id /\ frame'.created)
        /\ (Registered(Registry, id) /\ ~Registered(Registry', id)) => Remove(id)
        /\ (Registered(Registry, id) /\ Registered(Registry', id)) =>
             Registry'[id] = Registry[id]
    ]_vars

\* One id has just been removed and another, registered before, is still listed.
C15_Witness ==
  /\ resp.op = "delete"
  /\ ~resp.raised
  /\ ~Registered(chatbot_sessions, resp.session_id)
  /\ \E id \in DOMAIN chatbot_sessions :
       /\ id # resp.session_id
       /\ Len(bots[chatbot_sessions[id]].messages) > 1


\* The number of the request that carried message m: the order of arrival.
Arrival(m) == CHOOSE n \in 1..nreq : Msg(n) = m

\* C16: the chat requests of one session are served one at a time, in the
\* order they arrived: of a session's calls only the newest can be unanswered,
\* it is the one request that is running, and it began after every earlier
\* call had made all its appends.
C16_OneAtATime ==
  \A b \in DOMAIN bots :
    \A i \in DOMAIN log[b] :
      /\ log[b][i].outcome = "pending" =>
           /\ i = Len(log[b])
           /\ frame.pc \notin {"idle", "chat_response"}
           /\ frame.bot = b
           /\ frame.message = log[b][i].input
      /\ i < Len(log[b]) =>
           /\ Arrival(log[b][i].input) < Arrival(log[b][i + 1].input)
           /\ Len(log[b][i].trace) >= 2

\* The second request of a session waits for the model; the first has been answered.
C16_Witness ==
  /\ adapter = "http"
  /\ frame.pc = "invoke"
  /\ Len(log[frame.bot]) = 2
  /\ log[frame.bot][1].outcome # "pending"
  /\ log[frame.bot][2].outcome = "pending"


\* A step of a chat request, and the bot that serves it.
ChatStep == frame.pc # "idle" \/ frame'.pc # "idle"
Serving == IF frame.pc # "idle" THEN frame.bot ELSE frame'.bot

\* C17: a chat request changes only its own session: every other session's
\* transcript, the registration of every other id and the store's records
\* under every other id are as before.
C17_OtherSessionsUntouched ==
  [][ ChatStep =>
        LET sid == bots'[Serving].session_id
        IN  /\ \A c \in DOMAIN bots : c # Serving => bots'[c] = bots[c]
            /\ \A id \in DOMAIN Registry :
                 id # sid => (Registered(Registry', id) /\ Registry'[id] = Registry[id])
            /\ { i \in table' : i.SessionId # sid } = { i \in table : i.SessionId # sid }
    ]_vars

\* A request has been answered on one session while another session, under
\* another id, has a transcript and records of its own.
C17_Witness ==
  /\ frame.pc = "return"
  /\ Len(bots[frame.bot].messages) = 3
  /\ RecordsOf(bots[frame.bot].session_id) # {}
  /\ \E c \in DOMAIN bots :
       /\ bots[c].session_id # bots[frame.bot].session_id
       /\ Len(bots[c].messages) = 3
       /\ Cardinality(RecordsOf(bots[c].session_id)) = 2


\* Bot b is between the append of a turn and the write of that turn.
Unsaved(b) ==
  /\ frame.bot = b
  /\ frame.pc \in {"save_user", "save_assistant"}

\* C18: the turns chat_response hands to the store, written or not, are the
\* transcript without its leading system turn, in transcript order: every
\* turn is sent once it is appended, and the system turn is never sent.
C18_SentTurnsAreTranscript ==
  \A b \in DOMAIN bots :
    LET sent == [ i \in DOMAIN PutsOf(b) |->
                    [ role |-> PutsOf(b)[i].role, content |-> PutsOf(b)[i].content ] ]
    IN  /\ \A i \in DOMAIN sent : sent[i].role # "system"
        /\ IF Unsaved(b)
           THEN sent = SubSeq(TurnsOf(b), 1, Len(TurnsOf(b)) - 1)
           ELSE sent = TurnsOf(b)

\* Two calls on one session, one answered and one failed, with failed writes
\* among the three that were attempted.
C18_Witness ==
  /\ Free
  /\ \E b \in DOMAIN bots :
       /\ Len(PutsOf(b)) = 3
       /\ Len(bots[b].messages) = 4
       /\ \E i \in DOMAIN PutsOf(b) : ~PutsOf(b)[i].ok


\* The transcript bot b had when its i-th call reached the model: the system
\* turn, the turns of the calls before it, and the call's user turn.
PromptOf(b, i) ==
  << SystemMessage(SystemPrompt) >>
    \o Replay(SubSeq(log[b], 1, i - 1))
    \o << HumanMessage(log[b][i].input) >>

\* C19: the model is invoked only after the call's user turn has been
\* appended and its write attempted, and it is handed the whole transcript:
\* the system turn first, the new user turn last.
C19_InvokeSeesWholeTranscript ==
  \A b \in DOMAIN bots :
    \A i \in DOMAIN log[b] :
      LET t == log[b][i].trace
      IN  \A k \in DOMAIN t :
            IsInvoke(t[k]) =>
              /\ k = 2
              /\ IsPut(t[1])
              /\ t[1].role = "user"
              /\ t[1].content = log[b][i].input
              /\ t[k].prompt = PromptOf(b, i)
              /\ t[k].prompt[1].type = "system"
              /\ Last(t[k].prompt) = HumanMessage(log[b][i].input)

\* The second call of a session reached the model with the four turns it
\* then had, after a first call that was answered.
C19_Witness ==
  \E b \in DOMAIN bots :
    /\ Len(log[b]) = 2
    /\ log[b][1].outcome = "ok"
    /\ Len(log[b][2].trace) >= 2
    /\ IsInvoke(log[b][2].trace[2])
    /\ Len(log[b][2].trace[2].prompt) = 4


\* The i-th call of bot b has returned.
Returned(b, i) ==
  \/ i < Len(log[b])
  \/ frame.bot # b
  \/ frame.pc \in {"idle", "return"}

\* C20: a call makes one inference invocation, never a second, and at most
\* two write attempts: the user turn's always, before the invocation, and
\* the assistant turn's after it, only when the invocation succeeded.
C20_OneInvokeTwoWrites ==
  \A b \in DOMAIN bots :
    \A i \in DOMAIN log[b] :
      LET t == log[b][i].trace
      IN  /\ Len(SelectSeq(t, IsInvoke)) <= 1
          /\ Len(SelectSeq(t, IsPut)) <= 2
          /\ Returned(b, i) =>
               /\ Len(t) >= 2
               /\ IsPut(t[1]) /\ t[1].role = "user"
               /\ IsInvoke(t[2])
               /\ log[b][i].outcome = "fail" => Len(t) = 2
               /\ log[b][i].outcome = "ok" =>
                    /\ Len(t) = 3
                    /\ IsPut(t[3])
                    /\ t[3].role = "assistant"
                    /\ t[3].content = log[b][i].answer
               /\ log[b][i].outcome \in {"ok", "fail"}

\* A session with a failed call (one write attempt) followed by an answered
\* call (two write attempts), both returned.
C20_Witness ==
  /\ frame.pc = "return"
  /\ Len(log[frame.bot]) = 2
  /\ log[frame.bot][1].outcome = "fail"
  /\ Len(log[frame.bot][1].trace) = 2
  /\ log[frame.bot][2].outcome = "ok"
  /\ Len(log[frame.bot][2].trace) = 3


\* s is an initial segment of t.
IsPrefix(s, t) == Len(s) <= Len(t) /\ SubSeq(t, 1, Len(s)) = s

\* C21: the transcript of a session instance only grows at its end: in every
\* step, whatever the operation, the transcript before is a prefix of the
\* transcript after; no turn is removed, replaced or moved.
C21_TranscriptAppendOnly ==
  [][ \A b \in DOMAIN bots :
        /\ b \in DOMAIN bots'
        /\ IsPrefix(bots[b].messages, bots'[b].messages)
    ]_vars

\* The second request on a live session has appended its user turn to a
\* transcript that held the system turn and the turns of an answered call.
C21_Witness ==
  /\ frame.pc = "save_user"
  /\ frame.bot \in Live
  /\ Len(log[frame.bot]) = 2
  /\ log[frame.bot][1].outcome = "ok"
  /\ Len(bots[frame.bot].messages) = 4


\* C22: every registered session carries the id it is registered under, so
\* each turn it wrote is in the store under that id and the history of the
\* id answers it.  Both adapters.
C22_SessionIdIsRegistryKey ==
  \A k \in DOMAIN Registry :
    LET b == Registry[k]
    IN  /\ bots[b].session_id = k
        /\ \A i \in DOMAIN PutsOf(b) :
             PutsOf(b)[i].ok =>
               /\ \E item \in table :
                    /\ item.SessionId = k
                    /\ item.Role = PutsOf(b)[i].role
                    /\ item.Content = PutsOf(b)[i].content
               /\ \E j \in DOMAIN Stored(k) :
                    Stored(k)[j] = [ role    |-> PutsOf(b)[i].role,
                                     content |-> PutsOf(b)[i].content ]

\* A Lambda session registered under an id the client chose has written both
\* turns of a call, and the history of that id holds them.
C22_Witness ==
  /\ adapter = "lambda"
  /\ \E k \in DOMAIN chatbot_instances :
       /\ k \in SessionIds
       /\ bots[chatbot_instances[k]].session_id = k
       /\ Len(PutsOf(chatbot_instances[k])) = 2
       /\ \A i \in 1..2 : PutsOf(chatbot_instances[k])[i].ok
       /\ Len(Stored(k)) = 2


\* C23: the transcript of every session holds one system turn, its first
\* message, and every assistant turn comes right after a user turn: never
\* after the system turn, never after another assistant turn.
C23_TranscriptShape ==
  \A b \in DOMAIN bots :
    LET m == bots[b].messages
    IN  /\ Len(m) >= 1
        /\ m[1] = SystemMessage(SystemPrompt)
        /\ \A i \in DOMAIN m :
             /\ m[i].type \in {"system", "human", "ai"}
             /\ m[i].type = "system" => i = 1
             /\ m[i].type = "ai" => (i > 2 /\ m[i - 1].type = "human")

\* A failed call and then an answered one: two user turns in a row, the
\* assistant turn after the second, its write still to come.
C23_Witness ==
  /\ frame.pc = "save_assistant"
  /\ LET m == bots[frame.bot].messages
     IN  /\ Len(m) = 4
         /\ m[1].type = "system"
         /\ m[2].type = "human"
         /\ m[3].type = "human"
         /\ m[4].type = "ai"

====
